---- MODULE Spec2Model ----
(***************************************************************************)
(* Model of the AML UI backend core (src/aml_ui): the GroupService facade  *)
(* with its four caches, the artifact files it reads, the report ledger it *)
(* appends to, and the pure functions it is built from (risk scoring,      *)
(* enrichment, filtering, network building, snapshot correlation).         *)
(*                                                                         *)
(* Conventions                                                             *)
(*   - Optional values are sequences of length <= 1: <<>> is Python's None *)
(*     (or a missing key), <<x>> is a present x.                           *)
(*   - A JSON scalar whose type matters is a record [ty, n, s]: ty is      *)
(*     "null", "num" or "str".                                             *)
(*   - Amounts are integers in thousandths (mills) of a currency unit.     *)
(*     All modelled amounts are multiples of 0.125, so float sums are      *)
(*     exact and round(x, 2) is round-half-even on the exact value.        *)
(*   - A Python call that may raise returns [ok, err, v].                  *)
(***************************************************************************)
EXTENDS Integers, Sequences, FiniteSets, TLC

VARIABLES
    groupFiles,       \* artifacts/entities/*.json in sorted path order
    summaryFile,      \* artifacts/summary.json
    snapshotsFile,    \* artifacts/snapshots.json
    reportsFile,      \* reports.json (the persisted report ledger)
    groups_cache,     \* GroupService._groups_cache
    summary_cache,    \* GroupService._summary_cache
    snapshots_cache,  \* GroupService._snapshots_cache
    reports_cache,    \* GroupService._reports_cache
    last,             \* the last request and what the caller saw of it
    probe,            \* a pure function under test: its inputs and its result
    calls             \* submit_report calls in progress on worker threads

vars == <<groupFiles, summaryFile, snapshotsFile, reportsFile, groups_cache,
          summary_cache, snapshots_cache, reports_cache, last, probe, calls>>

serviceVars == <<groupFiles, summaryFile, snapshotsFile, reportsFile, groups_cache,
                 summary_cache, snapshots_cache, reports_cache, last, calls>>

-----------------------------------------------------------------------------
(* Python values *)

None == <<>>

Some(x) == <<x>>

Null == [ty |-> "null", n |-> 0, s |-> ""]

Num(x) == [ty |-> "num", n |-> x, s |-> ""]

Str(x) == [ty |-> "str", n |-> 0, s |-> x]

\* Python truthiness of a JSON scalar ("if not raw", "x or default").
Truthy(v) ==
    CASE v.ty = "null" -> FALSE
      [] v.ty = "num" -> v.n # 0
      [] v.ty = "str" -> v.s # ""

\* Truthiness of an optional string (None and "" are falsy).
TruthyStr(o) == o # None /\ o[1] # ""

Ok(x) == [ok |-> TRUE, err |-> "", v |-> x]

Fail(e) == [ok |-> FALSE, err |-> e, v |-> None]

Min2(a, b) == IF a <= b THEN a ELSE b

Max2(a, b) == IF a >= b THEN a ELSE b

\* float("inf"), which json.loads gives for a number such as 1e999 and which a
\* sum of floats beyond 1.8e308 overflows to: above every finite amount, and
\* never an operand of integer arithmetic.
Infinity == 2147483647

\* float("nan"), which json.loads gives for the literal NaN: every ordering
\* comparison with it is false, and arithmetic on it gives it back.
NaN == -2147483647

\* x < y on floats (and on integers and datetimes, which are never NaN).
FloatLt(x, y) == x # NaN /\ y # NaN /\ x < y

\* x + y on floats.
FloatAdd(x, y) ==
    IF x = NaN \/ y = NaN THEN NaN
    ELSE IF x = Infinity \/ y = Infinity THEN Infinity
    ELSE x + y

\* min(s) of a non-empty list: the first item no later item is less than.
RECURSIVE MinFrom(_, _, _)
MinFrom(s, i, best) ==
    IF i > Len(s) THEN best
    ELSE MinFrom(s, i + 1, IF FloatLt(s[i], best) THEN s[i] ELSE best)

SeqMin(s) == MinFrom(s, 2, s[1])

\* max(s) of a non-empty list: the first item no later item is greater than.
RECURSIVE MaxFrom(_, _, _)
MaxFrom(s, i, best) ==
    IF i > Len(s) THEN best
    ELSE MaxFrom(s, i + 1, IF FloatLt(best, s[i]) THEN s[i] ELSE best)

SeqMax(s) == MaxFrom(s, 2, s[1])

IsPrefix(s, t) == Len(s) <= Len(t) /\ SubSeq(t, 1, Len(s)) = s

\* str.lower() on the direction strings of the model.
Lower(s) ==
    CASE s = "OUT" -> "out"
      [] s = "Outgoing" -> "outgoing"
      [] s = "Debit" -> "debit"
      [] s = "IN" -> "in"
      [] s = "Incoming" -> "incoming"
      [] s = "Credit" -> "credit"
      [] s = "Wire" -> "wire"
      [] OTHER -> s

\* str.strip() on the report reasons of the model.
Strip(s) ==
    CASE s = "   " -> ""
      [] s = " layering " -> "layering"
      [] OTHER -> s

\* Python's round(): to the nearest integer, ties to the even one.
\* The value rounded is num / den, den > 0.
RoundHalfEven(num, den) ==
    LET q == num \div den
        r == num - q * den
    IN  IF 2 * r < den THEN q
        ELSE IF 2 * r > den THEN q + 1
        ELSE IF q % 2 = 0 THEN q ELSE q + 1

\* round(x, 2) on an amount in mills: the result is a multiple of 10 mills;
\* round(nan, 2) is nan and round(inf, 2) is inf.
Round2(mills) ==
    IF mills = NaN \/ mills = Infinity THEN mills ELSE 10 * RoundHalfEven(mills, 10)

-----------------------------------------------------------------------------
(* compute_risk_score: services.py 61-73 *)

\* Fixed-point binary logarithm: 1024 * log2(n) for an integer n >= 1,
\* by repeated squaring of the mantissa (scale 2^14), 10 fractional bits.
RECURSIVE Pow2(_)
Pow2(k) == IF k = 0 THEN 1 ELSE 2 * Pow2(k - 1)

RECURSIVE FloorLog2(_)
FloorLog2(n) == IF n < 2 THEN 0 ELSE 1 + FloorLog2(n \div 2)

RECURSIVE Log2Bits(_, _, _)
Log2Bits(m, bits, acc) ==
    IF bits = 0 THEN acc
    ELSE LET sq == (m * m) \div 16384
         IN  IF sq >= 32768
             THEN Log2Bits(sq \div 2, bits - 1, 2 * acc + 1)
             ELSE Log2Bits(sq, bits - 1, 2 * acc)

Log2Fixed(n) ==
    LET k == FloorLog2(n)
        m == IF k >= 14 THEN n \div Pow2(k - 14) ELSE n * Pow2(14 - k)
    IN  k * 1024 + Log2Bits(m, 10, 0)

\* exposure_scale in thousandths: 55 * log1p(total) / log1p(250000), 0 when
\* total <= 0 (lines 68-69). total_amount is in mills, so 1 + total is
\* (1000 + mills) / 1000 and the quotient of logarithms is
\* (L - 1024*log2(1000)) / (1024*log2(250001)) with L = Log2Fixed(1000 + mills);
\* in eighths of the unit of L these constants are 81640 and 8 * 18362, and
\* 8 recentres the truncation of L. Agrees with the float value to within
\* 0.003, and is 55 exactly at 250000.
exposure_scale(total_amount) ==
    IF total_amount > 0
    THEN (6875 * (8 * Log2Fixed(1000 + total_amount) + 8 - 81640)) \div 18362
    ELSE 0

\* round(raw_score): structural + exposure_scale + directionality, rounded.
\* outgoing_ratio is the fraction [num, den].
raw_score_rounded(member_count, transaction_count, total_amount, unique_counterparties, outgoing_ratio) ==
    LET structural == member_count * 4500 + transaction_count * 2200
                        + unique_counterparties * 1500
        den == outgoing_ratio.den
        raw_num == (structural + exposure_scale(total_amount)) * den
                     + 18000 * outgoing_ratio.num
    IN  RoundHalfEven(raw_num, 1000 * den)

\* The score, or the exception raised: with an infinite total_amount
\* exposure, exposure_scale and raw_score are infinite, and round(raw_score)
\* of an infinite float raises OverflowError before the clamp (line 73).
compute_risk_score(member_count, transaction_count, total_amount, unique_counterparties, outgoing_ratio) ==
    IF total_amount = Infinity THEN Fail("OverflowError")
    ELSE Ok(Max2(1, Min2(99, raw_score_rounded(member_count, transaction_count,
                                               total_amount, unique_counterparties,
                                               outgoing_ratio))))

-----------------------------------------------------------------------------
(* parse_iso_datetime: data_access.py 14-26 *)

\* datetime.fromisoformat(raw.replace("Z", "+00:00")) on the timestamp strings
\* of the model: the instant (a day number, UTC) or None for a ValueError.
\* A naive timestamp is taken as UTC, so it names the same instant.
fromisoformat(s) ==
    CASE s = "2024-01-01T00:00:00Z" -> Some(1)
      [] s = "2024-01-02T00:00:00" -> Some(2)
      [] s = "2024-01-03T00:00:00+00:00" -> Some(3)
      [] OTHER -> None

\* "if not raw: return None"; raw.replace on a non-string raises
\* AttributeError, which the "except ValueError" does not catch.
parse_iso_datetime(raw) ==
    IF ~Truthy(raw) THEN Ok(None)
    ELSE IF raw.ty # "str" THEN Fail("AttributeError")
    ELSE Ok(fromisoformat(raw.s))

-----------------------------------------------------------------------------
(* enrich_group: services.py 76-135 *)

OutgoingDirections == {"out", "outgoing", "debit"}

IncomingDirections == {"in", "incoming", "credit"}

\* (tx.get("direction") or "").lower()
normalized_direction(tx) ==
    IF tx.direction = None THEN "" ELSE Lower(tx.direction[1])

\* A normalisation that forgets to lower-case.
is_outgoing_case_sensitive(tx) ==
    (IF tx.direction = None THEN "" ELSE tx.direction[1]) \in OutgoingDirections

\* normalized_direction in {"out", "outgoing", "debit"}
is_outgoing(tx) == normalized_direction(tx) \in OutgoingDirections

\* The state of the loop over the transactions (lines 80-86).
EnrichStart ==
    [total_amount |-> 0, unique_counterparties |-> {}, outgoing_count |-> 0,
     timestamps |-> <<>>, min_amount |-> None, max_amount |-> None,
     parsed_transactions |-> <<>>, err |-> ""]

\* One iteration of "for tx in transactions" (lines 88-106).
EnrichTx(acc, tx) ==
    LET isnum == tx.amount.ty = "num"
        amount_value == tx.amount.n
        ts == parse_iso_datetime(tx.timestamp)
    IN  IF ~ts.ok THEN [acc EXCEPT !.err = ts.err]
        ELSE [total_amount |-> IF isnum THEN FloatAdd(acc.total_amount, amount_value)
                                ELSE acc.total_amount,
              min_amount |-> IF ~isnum THEN acc.min_amount
                             ELSE IF acc.min_amount = None THEN Some(amount_value)
                             ELSE Some(SeqMin(<<acc.min_amount[1], amount_value>>)),
              max_amount |-> IF ~isnum THEN acc.max_amount
                             ELSE IF acc.max_amount = None THEN Some(amount_value)
                             ELSE Some(SeqMax(<<acc.max_amount[1], amount_value>>)),
              unique_counterparties |->
                  IF TruthyStr(tx.counterparty_id)
                  THEN acc.unique_counterparties \cup {tx.counterparty_id[1]}
                  ELSE acc.unique_counterparties,
              outgoing_count |-> IF is_outgoing(tx) THEN acc.outgoing_count + 1
                                 ELSE acc.outgoing_count,
              timestamps |-> IF ts.v # None THEN Append(acc.timestamps, ts.v[1])
                             ELSE acc.timestamps,
              parsed_transactions |->
                  Append(acc.parsed_transactions,
                         [amount |-> tx.amount,
                          counterparty_id |-> tx.counterparty_id,
                          direction |-> tx.direction,
                          timestamp |-> tx.timestamp,
                          parsed_timestamp |-> ts.v]),
              err |-> ""]

RECURSIVE EnrichLoop(_, _, _)
EnrichLoop(transactions, i, acc) ==
    IF i > Len(transactions) \/ acc.err # "" THEN acc
    ELSE EnrichLoop(transactions, i + 1, EnrichTx(acc, transactions[i]))

\* outgoing_count / transaction_count if transaction_count else 0.0,
\* kept as the fraction it is.
Ratio(outgoing_count, transaction_count) ==
    IF transaction_count # 0
    THEN [num |-> outgoing_count, den |-> transaction_count]
    ELSE [num |-> 0, den |-> 1]

\* The enriched group, or the exception the loop or the scorer raised.
enrich_group(raw_group) ==
    LET members == raw_group.members
        transactions == raw_group.transactions
        acc == EnrichLoop(transactions, 1, EnrichStart)
        transaction_count == Len(transactions)
        outgoing_ratio == Ratio(acc.outgoing_count, transaction_count)
        risk_score == compute_risk_score(Len(members), transaction_count,
                                         acc.total_amount,
                                         Cardinality(acc.unique_counterparties),
                                         outgoing_ratio)
    IN  IF acc.err # "" THEN Fail(acc.err)
        ELSE IF ~risk_score.ok THEN risk_score
        ELSE Ok([group_id |-> raw_group.group_id,
                 members |-> members,
                 transactions |-> transactions,
                 name |-> raw_group.name,
                 tax_id |-> raw_group.tax_id,
                 metrics |->
                     [member_count |-> Len(members),
                      transaction_count |-> transaction_count,
                      total_amount |-> Round2(acc.total_amount),
                      unique_counterparties |-> Cardinality(acc.unique_counterparties),
                      outgoing_ratio |-> outgoing_ratio,
                      first_seen |-> IF acc.timestamps # <<>>
                                     THEN Some(SeqMin(acc.timestamps)) ELSE None,
                      last_seen |-> IF acc.timestamps # <<>>
                                    THEN Some(SeqMax(acc.timestamps)) ELSE None,
                      min_transaction_amount |-> acc.min_amount,
                      max_transaction_amount |-> acc.max_amount,
                      risk_score |-> risk_score.v],
                 transactions_parsed |-> acc.parsed_transactions,
                 display_name |-> IF TruthyStr(raw_group.name) THEN raw_group.name
                                  ELSE raw_group.group_id])

-----------------------------------------------------------------------------
(* summarize_groups: services.py 138-176 *)

AllAbsent ==
    [min_total_amount |-> None, max_total_amount |-> None, min_risk |-> None,
     max_risk |-> None, min_date |-> None, max_date |-> None,
     min_tx_amount |-> None, max_tx_amount |-> None]

\* The concatenation of a sequence of sequences.
RECURSIVE Flatten(_)
Flatten(ss) == IF ss = <<>> THEN <<>> ELSE Head(ss) \o Flatten(Tail(ss))

OptMin(s) == IF s = <<>> THEN None ELSE Some(SeqMin(s))

OptMax(s) == IF s = <<>> THEN None ELSE Some(SeqMax(s))

summarize_groups(groups) ==
    IF groups = <<>> THEN AllAbsent
    ELSE LET totals == [i \in DOMAIN groups |-> groups[i].metrics.total_amount]
             risks == [i \in DOMAIN groups |-> groups[i].metrics.risk_score]
             tx_min_values ==
                 Flatten([i \in DOMAIN groups |-> groups[i].metrics.min_transaction_amount])
             tx_max_values ==
                 Flatten([i \in DOMAIN groups |-> groups[i].metrics.max_transaction_amount])
             dates ==
                 Flatten([i \in DOMAIN groups |->
                             groups[i].metrics.first_seen \o groups[i].metrics.last_seen])
         IN  [min_total_amount |-> Some(SeqMin(totals)),
              max_total_amount |-> Some(SeqMax(totals)),
              min_risk |-> Some(SeqMin(risks)),
              max_risk |-> Some(SeqMax(risks)),
              min_date |-> OptMin(dates),
              max_date |-> OptMax(dates),
              min_tx_amount |-> OptMin(tx_min_values),
              max_tx_amount |-> OptMax(tx_max_values)]

-----------------------------------------------------------------------------
(* filter_groups: services.py 179-204 *)

\* GroupFilters(): services.py 43-50. max_total None is float("inf").
DefaultFilters ==
    [min_risk |-> 0, min_total |-> 0, max_total |-> None, start_date |-> None,
     end_date |-> None, reported_only |-> FALSE]

\* group.get("group_id") in a collection of identifiers
IdIn(group_id, ids) == group_id # None /\ group_id[1] \in ids

\* The group is appended to "filtered": none of the "continue"s is taken.
GroupPasses(group, filters, reported_set) ==
    LET metrics == group.metrics
        total_amount == metrics.total_amount
        group_start == metrics.first_seen
        group_end == metrics.last_seen
    IN  /\ ~(metrics.risk_score < filters.min_risk)
        /\ ~(\/ FloatLt(total_amount, filters.min_total)
             \/ (filters.max_total # None
                   /\ FloatLt(filters.max_total[1], total_amount)))
        /\ ~(filters.reported_only /\ ~IdIn(group.group_id, reported_set))
        /\ (filters.start_date # None \/ filters.end_date # None) =>
              /\ ~(/\ filters.start_date # None
                   /\ (group_end = None \/ group_end[1] < filters.start_date[1]))
              /\ ~(/\ filters.end_date # None
                   /\ (group_start = None \/ group_start[1] > filters.end_date[1]))

SeqRange(s) == {s[i] : i \in DOMAIN s}

\* A filter_groups that also leaves out the first group that passes.
filter_groups_skip_first(groups, filters, rids) ==
    LET passing == SelectSeq(groups, LAMBDA g : GroupPasses(g, filters, SeqRange(rids)))
    IN  IF passing = <<>> THEN <<>> ELSE Tail(passing)

filter_groups(groups, filters, reported_ids) ==
    SelectSeq(groups, LAMBDA g : GroupPasses(g, filters, SeqRange(reported_ids)))

-----------------------------------------------------------------------------
(* build_network_payload: services.py 207-275 *)

\* float() of a string amount: the value in mills, or ValueError.
ParseFloat(s) ==
    CASE s = "12.5" -> Ok(12500)
      [] OTHER -> Fail("ValueError")

\* float(tx.get("amount") or 0.0)
float_amount(amount) ==
    IF ~Truthy(amount) THEN Ok(0)
    ELSE IF amount.ty = "num" THEN Ok(amount.n)
    ELSE ParseFloat(amount.s)

\* counterparty[:24] on the counterparty identifiers of the model.
Prefix24(s) ==
    CASE s = "ACCT-0000000000000000000042" -> "ACCT-0000000000000000000"
      [] OTHER -> s

\* The lower-cased direction strings of the model in lexicographic order.
DirectionOrder ==
    <<"credit", "debit", "in", "incoming", "out", "outgoing", "wire">>

\* sorted(data["directions"])
SortedDirections(directions) ==
    SelectSeq(DirectionOrder, LAMBDA d : d \in directions)

HasKey(entries, id) == \E i \in DOMAIN entries : entries[i].id = id

\* An assignment that leaves a key the dict already holds as it is.
PutNodeIfAbsent(nodes, node) ==
    IF HasKey(nodes, node.id) THEN nodes ELSE Append(nodes, node)

\* nodes[id] = node: a dict keeps the position of a key it already holds.
PutNode(nodes, node) ==
    IF HasKey(nodes, node.id)
    THEN [i \in DOMAIN nodes |-> IF nodes[i].id = node.id THEN node ELSE nodes[i]]
    ELSE Append(nodes, node)

GroupNode(group, reported_set, highlight_reported) ==
    [id |-> group.group_id[1],
     label |-> IF TruthyStr(group.display_name) THEN group.display_name[1]
               ELSE group.group_id[1],
     kind |-> "group",
     risk_score |-> Some(group.metrics.risk_score),
     member_count |-> Some(group.metrics.member_count),
     total_amount |-> Some(group.metrics.total_amount),
     highlight |-> highlight_reported /\ group.group_id[1] \in reported_set]

CounterpartyNode(counterparty) ==
    [id |-> counterparty, label |-> Prefix24(counterparty), kind |-> "counterparty",
     risk_score |-> None, member_count |-> None, total_amount |-> None,
     highlight |-> FALSE]

\* An accumulation keyed by the unordered pair: a transfer adds to the edge
\* between its endpoints whichever way that edge points.
AddToEdgeUnordered(edges, src, dst, amount, direction) ==
    LET Joins(e) == \/ (e.source = src /\ e.target = dst)
                    \/ (e.source = dst /\ e.target = src)
        start == IF \E i \in DOMAIN edges : Joins(edges[i])
                 THEN edges
                 ELSE Append(edges, [source |-> src, target |-> dst, amount |-> 0,
                                     count |-> 0, directions |-> {}])
    IN  [i \in DOMAIN start |->
            IF Joins(start[i])
            THEN [start[i] EXCEPT !.amount = FloatAdd(@, amount),
                                  !.count = @ + 1,
                                  !.directions = IF direction # "" THEN @ \cup {direction}
                                                 ELSE @]
            ELSE start[i]]

\* entry = edges.setdefault(key, ...); entry["amount"] += amount; ...
AddToEdge(edges, src, dst, amount, direction) ==
    LET start == IF \E i \in DOMAIN edges : edges[i].source = src /\ edges[i].target = dst
                 THEN edges
                 ELSE Append(edges, [source |-> src, target |-> dst, amount |-> 0,
                                     count |-> 0, directions |-> {}])
    IN  [i \in DOMAIN start |->
            IF start[i].source = src /\ start[i].target = dst
            THEN [start[i] EXCEPT !.amount = FloatAdd(@, amount),
                                  !.count = @ + 1,
                                  !.directions = IF direction # "" THEN @ \cup {direction}
                                                 ELSE @]
            ELSE start[i]]

\* One iteration of the loop over a group's transactions (lines 231-263).
NetworkTx(st, group_id, tx) ==
    LET counterparty == tx.counterparty_id
        amount == float_amount(tx.amount)
        direction == normalized_direction(tx)
        incoming == direction \in IncomingDirections
        src == IF incoming THEN counterparty[1] ELSE group_id
        dst == IF incoming THEN group_id ELSE counterparty[1]
    IN  IF ~TruthyStr(counterparty) THEN st
        ELSE IF ~amount.ok
        THEN [st EXCEPT !.err = amount.err,
                        !.nodes = IF HasKey(st.nodes, counterparty[1]) THEN @
                                  ELSE Append(@, CounterpartyNode(counterparty[1]))]
        ELSE [nodes |-> IF HasKey(st.nodes, counterparty[1]) THEN st.nodes
                        ELSE Append(st.nodes, CounterpartyNode(counterparty[1])),
              edges |-> AddToEdge(st.edges, src, dst, amount.v, direction),
              err |-> ""]

RECURSIVE NetworkTxLoop(_, _, _, _)
NetworkTxLoop(st, group_id, transactions, i) ==
    IF i > Len(transactions) \/ st.err # "" THEN st
    ELSE NetworkTxLoop(NetworkTx(st, group_id, transactions[i]), group_id,
                       transactions, i + 1)

\* One iteration of the loop over the groups (lines 217-263).
NetworkGroup(st, group, reported_set, highlight_reported) ==
    IF ~TruthyStr(group.group_id) THEN st
    ELSE NetworkTxLoop([st EXCEPT !.nodes = PutNode(@, GroupNode(group, reported_set,
                                                                highlight_reported))],
                       group.group_id[1], group.transactions_parsed, 1)

RECURSIVE NetworkGroupLoop(_, _, _, _, _)
NetworkGroupLoop(st, groups, i, reported_set, highlight_reported) ==
    IF i > Len(groups) \/ st.err # "" THEN st
    ELSE NetworkGroupLoop(NetworkGroup(st, groups[i], reported_set, highlight_reported),
                          groups, i + 1, reported_set, highlight_reported)

\* NetworkEdge(...) for each accumulated edge (lines 265-274).
EdgeModel(data) ==
    [source |-> data.source, target |-> data.target, amount |-> Round2(data.amount),
     count |-> data.count, directions |-> SortedDirections(data.directions)]

\* The NetworkResponse, or the exception float() raised.
build_network_payload(groups, reported_ids, highlight_reported) ==
    LET st == NetworkGroupLoop([nodes |-> <<>>, edges |-> <<>>, err |-> ""], groups, 1,
                               SeqRange(reported_ids), highlight_reported)
    IN  IF st.err # "" THEN Fail(st.err)
        ELSE Ok([nodes |-> st.nodes,
                 edges |-> [i \in DOMAIN st.edges |-> EdgeModel(st.edges[i])]])

-----------------------------------------------------------------------------
(* GroupService._select_relevant_snapshots: services.py 464-486 *)

\* The default of the limit parameter.
DefaultSnapshotLimit == 25

member_ids(group) ==
    {group.members[i].record_id[1] :
        i \in {j \in DOMAIN group.members : TruthyStr(group.members[j].record_id)}}

signature_set(group) ==
    UNION {SeqRange(group.members[i].signature_history) : i \in DOMAIN group.members}

RecordIdRule(group, snapshot) ==
    snapshot.record_id # None /\ snapshot.record_id[1] \in member_ids(group)

SignatureRule(group, snapshot) ==
    snapshot.signature # None /\ snapshot.signature[1] \in signature_set(group)

TaxIdRule(group, snapshot) ==
    TruthyStr(group.tax_id) /\ snapshot.tax_id = group.tax_id

\* A loop body without the "continue"s: one append per rule that matches.
AppendsPerRule(group, snapshot) ==
    IF ~snapshot.is_dict THEN 0
    ELSE (IF RecordIdRule(group, snapshot) THEN 1 ELSE 0)
           + (IF SignatureRule(group, snapshot) THEN 1 ELSE 0)
           + (IF TaxIdRule(group, snapshot) THEN 1 ELSE 0)

\* How many times one iteration of the loop appends the snapshot to "matched":
\* the record-id and signature rules append and "continue".
Appends(group, snapshot) ==
    IF ~snapshot.is_dict THEN 0
    ELSE IF RecordIdRule(group, snapshot) THEN 1
    ELSE IF SignatureRule(group, snapshot) THEN 1
    ELSE IF TaxIdRule(group, snapshot) THEN 1
    ELSE 0

Repeat(x, n) == [k \in 1..n |-> x]

\* "matched" after the loop, as positions in the snapshot list.
RECURSIVE MatchLoop(_, _, _, _)
MatchLoop(group, snapshots, i, matched) ==
    IF i > Len(snapshots) THEN matched
    ELSE MatchLoop(group, snapshots, i + 1,
                   matched \o Repeat(i, Appends(group, snapshots[i])))

\* matched[:limit] for limit >= 0, as positions in the snapshot list; the
\* snapshots returned are the ones at these positions.
select_relevant_positions(group, snapshots, limit) ==
    IF snapshots = <<>> THEN <<>>
    ELSE LET matched == MatchLoop(group, snapshots, 1, <<>>)
         IN  SubSeq(matched, 1, Min2(limit, Len(matched)))

select_relevant_snapshots(group, snapshots, limit) ==
    LET positions == select_relevant_positions(group, snapshots, limit)
    IN  [k \in DOMAIN positions |-> snapshots[positions[k]]]

-----------------------------------------------------------------------------
(* The artifact files of the model *)

Tx(amount, counterparty_id, direction, timestamp) ==
    [amount |-> amount, counterparty_id |-> counterparty_id, direction |-> direction,
     timestamp |-> timestamp]

Member(record_id, signature_history) ==
    [record_id |-> record_id, signature_history |-> signature_history]

\* One file of artifacts/entities: a JSON object (kind "dict") or a file that
\* does not parse (kind "malformed").
GroupFile(group_id, members, transactions, name, tax_id) ==
    [kind |-> "dict", group_id |-> group_id, members |-> members,
     transactions |-> transactions, name |-> name, tax_id |-> tax_id]

MalformedFile ==
    [kind |-> "malformed", group_id |-> None, members |-> <<>>, transactions |-> <<>>,
     name |-> None, tax_id |-> None]

GroupA ==
    GroupFile(Some("g1"), <<Member(Some("r1"), <<"sigA">>)>>,
              <<Tx(Num(100000), Some("C1"), Some("OUT"), Str("2024-01-01T00:00:00Z")),
                Tx(Num(50000), Some("C1"), Some("in"), Str("2024-01-02T00:00:00"))>>,
              Some("Acme"), Some("TX1"))

\* GroupA after its artifact was regenerated with one more transaction.
GroupA2 ==
    GroupFile(Some("g1"), <<Member(Some("r1"), <<"sigA">>)>>,
              <<Tx(Num(100000), Some("C1"), Some("OUT"), Str("2024-01-01T00:00:00Z")),
                Tx(Num(50000), Some("C1"), Some("in"), Str("2024-01-02T00:00:00")),
                Tx(Num(250000000), Some("C2"), Some("Debit"),
                   Str("2024-01-03T00:00:00+00:00"))>>,
              Some("Acme"), Some("TX1"))

GroupB ==
    GroupFile(Some("g2"), <<Member(Some("r2"), <<>>), Member(None, <<"sigB">>)>>,
              <<Tx(Num(125), Some("g1"), Some("Debit"), Str("not-a-date"))>>,
              None, None)

\* Dirty records: no identifier and fields missing; a string amount that is
\* no number; a timestamp that is a JSON number.
GroupNoId ==
    GroupFile(None, <<>>, <<Tx(Null, None, None, Null)>>, None, None)

GroupTextAmount ==
    GroupFile(Some("g3"), <<>>, <<Tx(Str("n/a"), Some("C1"), Some("out"), Null)>>,
              None, None)

GroupNumericTimestamp ==
    GroupFile(Some("g3"), <<>>, <<Tx(Num(125), Some("C1"), Some("out"), Num(1700000000))>>,
              None, None)

\* The contents artifacts/entities takes in the model.
Datasets ==
    {<<>>,
     <<GroupA, GroupB>>,
     <<GroupA2, GroupB>>,
     <<GroupA, MalformedFile, GroupNoId, GroupTextAmount>>,
     <<GroupB, GroupNumericTimestamp>>}

Snapshot(is_dict, record_id, signature, tax_id) ==
    [is_dict |-> is_dict, record_id |-> record_id, signature |-> signature,
     tax_id |-> tax_id]

\* artifacts/snapshots.json of the model: a JSON list.
SnapshotsArtifact ==
    [kind |-> "list",
     entries |-> <<Snapshot(TRUE, Some("r1"), Some("sigA"), Some("TX1")),
                   Snapshot(FALSE, None, None, None),
                   Snapshot(TRUE, Some("r9"), Some("sigB"), None),
                   Snapshot(TRUE, Some("r8"), None, Some("TX9"))>>]

\* artifacts/summary.json of the model: a JSON object.
SummaryArtifact ==
    [kind |-> "dict", total_records |-> Some(3), run_id |-> Some("run-7")]

ReportEntry(timestamp, group_id, reason, checks, snapshot) ==
    [timestamp |-> timestamp, group_id |-> group_id, reason |-> reason,
     checks |-> checks, snapshot |-> snapshot]

\* A ledger entry somebody else wrote, with fields missing.
DirtyEntry == ReportEntry(None, Some("g2"), None, <<>>, None)

\* reports.json as the service may find it when it starts; the first entry of
\* the last file names no group (ReportRecord.group_id is Optional).
InitialReportsFiles ==
    {[kind |-> "missing", entries |-> <<>>],
     [kind |-> "malformed", entries |-> <<>>],
     [kind |-> "list", entries |-> <<DirtyEntry>>],
     [kind |-> "list",
      entries |-> <<ReportEntry(Some("2024-05-01T00:00:00Z"), None,
                                Some("manual note"), <<>>, None),
                    DirtyEntry>>]}

-----------------------------------------------------------------------------
(* data_access.py: the loaders *)

\* load_group_payloads: the files that parse to a JSON object, in path order.
load_group_payloads(files) == SelectSeq(files, LAMBDA f : f.kind = "dict")

\* load_summary: the payload if it is a dict, else {}.
load_summary(file) ==
    IF file.kind = "dict"
    THEN [total_records |-> file.total_records, run_id |-> file.run_id, empty |-> FALSE]
    ELSE [total_records |-> None, run_id |-> None, empty |-> TRUE]

\* load_snapshots: the payload if it is a list, else [].
load_snapshots(file) == IF file.kind = "list" THEN file.entries ELSE <<>>

\* load_reports: the payload if it is a list, else [].
load_reports(file) == IF file.kind = "list" THEN file.entries ELSE <<>>

\* A write that would add the last record to the file as it is at the write,
\* in place of overwriting it.
write_reports_appending(reports) ==
    [kind |-> "list",
     entries |-> Append(load_reports(reportsFile), reports[Len(reports)])]

\* write_reports: the whole file is overwritten.
write_reports(reports) == [kind |-> "list", entries |-> reports]

\* ensure_reports_file: a missing file is created as "[]".
ensure_reports_file(file) ==
    IF file.kind = "missing" THEN [kind |-> "list", entries |-> <<>>] ELSE file

-----------------------------------------------------------------------------
(* GroupService: the cache loaders, services.py 326-350 *)

\* [enrich_group(group) for group in raw_groups]: the list, or the first
\* exception raised.
RECURSIVE EnrichAll(_, _, _)
EnrichAll(raw_groups, i, done) ==
    IF i > Len(raw_groups) THEN Ok(done)
    ELSE LET e == enrich_group(raw_groups[i])
         IN  IF e.ok THEN EnrichAll(raw_groups, i + 1, Append(done, e.v)) ELSE e

\* A _load_groups that reads the group files on every call.
load_groups_uncached == EnrichAll(load_group_payloads(groupFiles), 1, <<>>)

\* _load_groups: what it returns (or raises).
load_groups ==
    IF groups_cache = None
    THEN EnrichAll(load_group_payloads(groupFiles), 1, <<>>)
    ELSE Ok(groups_cache[1])

\* _groups_cache after a call of _load_groups that had the result r.
groups_cache_after(r) == IF r.ok THEN Some(r.v) ELSE groups_cache

\* _load_summary
loaded_summary ==
    IF summary_cache = None THEN load_summary(summaryFile) ELSE summary_cache[1]

\* _load_snapshots
loaded_snapshots ==
    IF snapshots_cache = None THEN load_snapshots(snapshotsFile) ELSE snapshots_cache[1]

\* _load_reports: the list it returns, and reports.json after the call.
loaded_reports ==
    IF reports_cache = None THEN load_reports(ensure_reports_file(reportsFile))
    ELSE reports_cache[1]

reports_file_after_load ==
    IF reports_cache = None THEN ensure_reports_file(reportsFile) ELSE reportsFile

\* A _reported_ids that lists every reported group once.
reported_ids_distinct(reports) ==
    LET FirstFor(i) == \A j \in 1..(i - 1) : reports[j].group_id # reports[i].group_id
    IN  Flatten([i \in DOMAIN reports |->
                    IF TruthyStr(reports[i].group_id) /\ FirstFor(i)
                    THEN reports[i].group_id ELSE <<>>])

\* _reported_ids: services.py 387-388
reported_ids(reports) ==
    Flatten([i \in DOMAIN reports |->
                IF TruthyStr(reports[i].group_id) THEN reports[i].group_id ELSE <<>>])

\* next((g for g in groups if g.get("group_id") == group_id), None)
FindGroup(groups, group_id) ==
    LET hits == SelectSeq(groups, LAMBDA g : g.group_id = Some(group_id))
    IN  IF hits = <<>> THEN None ELSE Some(hits[1])

-----------------------------------------------------------------------------
(* Requests of the model *)

\* The ledger is capped at this many entries so that the model is finite.
MaxReports == 2

RequestIds == {"g1", "g2", "zz"}

Reasons == {"", "   ", " layering "}

CheckLists == {<<"circular flow">>}

\* datetime.utcnow().replace(microsecond=0).isoformat() + "Z"
Clock == {"2024-06-01T12:00:00Z"}

FilterChoices ==
    {DefaultFilters,
     [min_risk |-> 30, min_total |-> 0, max_total |-> Some(200000),
      start_date |-> Some(2), end_date |-> None, reported_only |-> TRUE]}

\* TransactionFilters(): services.py 53-58
DefaultTransactionFilters ==
    [min_amount |-> 0, max_amount |-> None, start_date |-> None, end_date |-> None]

SnapshotLimits == {1, 100}

\* What the caller sees of a request that raised.
Raised(op, status, err, detail) ==
    [op |-> op, status |-> status, err |-> err, detail |-> detail]

\* read_group: "except ValueError" becomes HTTP 404 (api.py 70-73); any other
\* exception is an internal error.
read_group_status(err) == IF err = "ValueError" THEN 404 ELSE 500

\* A create_report that answers 404 for a group it cannot find.
create_report_status_like_read_group(err) == read_group_status(err)

\* create_report: "except ValueError" becomes HTTP 400 (api.py 104-107).
create_report_status(err) == IF err = "ValueError" THEN 400 ELSE 500

-----------------------------------------------------------------------------
(* GroupService: the operations *)

\* GroupSummary(...) for one group; group_id: str is required (models.py 48).
GroupSummaryOf(group, rids) ==
    [group_id |-> group.group_id, display_name |-> group.display_name,
     metrics |-> group.metrics, reported |-> IdIn(group.group_id, SeqRange(rids))]

\* list_groups: services.py 390-410, api.py 36-53. (\E x \in {e} names the
\* value of e, as an assignment to a local variable does.)
ListGroups(filters) ==
    \E g \in {load_groups}, reports \in {loaded_reports} :
    \E rids \in {reported_ids(reports)} :
    \E filtered \in {filter_groups(g.v, filters, rids)} :
        /\ groups_cache' = groups_cache_after(g)
        /\ reports_cache' = IF g.ok THEN Some(reports) ELSE reports_cache
        /\ reportsFile' = IF g.ok THEN reports_file_after_load ELSE reportsFile
        /\ last' = IF ~g.ok THEN Raised("list_groups", 500, g.err, "")
                   ELSE IF \E i \in DOMAIN filtered : filtered[i].group_id = None
                   THEN Raised("list_groups", 500, "ValidationError", "")
                   ELSE [op |-> "list_groups", status |-> 200, err |-> "",
                         filters |-> filters,
                         items |-> [i \in DOMAIN filtered |->
                                       GroupSummaryOf(filtered[i], rids)],
                         total |-> Len(filtered),
                         aggregated |-> summarize_groups(filtered),
                         reported_ids |-> rids]
        /\ UNCHANGED <<groupFiles, summaryFile, snapshotsFile, summary_cache,
                       snapshots_cache, probe, calls>>

\* _apply_transaction_filters: services.py 441-462
apply_transaction_filters(group, filters) ==
    SelectSeq(group.transactions_parsed,
              LAMBDA tx :
                  LET amount_value == IF tx.amount.ty = "num" THEN tx.amount.n ELSE 0
                      ts == tx.parsed_timestamp
                  IN  /\ ~(\/ FloatLt(amount_value, filters.min_amount)
                           \/ (filters.max_amount # None
                                 /\ FloatLt(filters.max_amount[1], amount_value)))
                      /\ ~(filters.start_date # None
                             /\ (ts = None \/ ts[1] < filters.start_date[1]))
                      /\ ~(filters.end_date # None
                             /\ (ts = None \/ ts[1] > filters.end_date[1])))

\* get_group_detail: services.py 412-439, api.py 56-73
GetGroupDetail(group_id, transaction_filters) ==
    \E g \in {load_groups}, reports \in {loaded_reports},
       snapshots \in {loaded_snapshots} :
    \E target \in {FindGroup(g.v, group_id)} :
    \E found \in {g.ok /\ target # None} :
        /\ groups_cache' = groups_cache_after(g)
        /\ reports_cache' = IF found THEN Some(reports) ELSE reports_cache
        /\ reportsFile' = IF found THEN reports_file_after_load ELSE reportsFile
        /\ snapshots_cache' = IF found THEN Some(snapshots) ELSE snapshots_cache
        /\ last' = IF ~g.ok
                   THEN Raised("get_group_detail", read_group_status(g.err), g.err, "")
                   ELSE IF target = None
                   THEN Raised("get_group_detail", read_group_status("ValueError"),
                               "ValueError", "not found")
                   ELSE [op |-> "get_group_detail", status |-> 200, err |-> "",
                         group_id |-> group_id,
                         metrics |-> target[1].metrics,
                         reported |-> group_id \in SeqRange(reported_ids(reports)),
                         transactions |->
                             apply_transaction_filters(target[1], transaction_filters),
                         snapshots |->
                             select_relevant_snapshots(target[1], snapshots,
                                                       DefaultSnapshotLimit)]
        /\ UNCHANGED <<groupFiles, summaryFile, snapshotsFile, summary_cache, probe, calls>>

\* get_network: services.py 488-501, api.py 76-94
GetNetwork(filters, highlight_reported) ==
    \E g \in {load_groups}, reports \in {loaded_reports} :
    \E rids \in {reported_ids(reports)} :
    \E filtered \in {filter_groups(g.v, filters, rids)} :
    \E payload \in {build_network_payload(filtered, rids, highlight_reported)} :
        /\ groups_cache' = groups_cache_after(g)
        /\ reports_cache' = IF g.ok THEN Some(reports) ELSE reports_cache
        /\ reportsFile' = IF g.ok THEN reports_file_after_load ELSE reportsFile
        /\ last' = IF ~g.ok THEN Raised("get_network", 500, g.err, "")
                   ELSE IF ~payload.ok THEN Raised("get_network", 500, payload.err, "")
                   ELSE [op |-> "get_network", status |-> 200, err |-> "",
                         highlight_reported |-> highlight_reported,
                         nodes |-> payload.v.nodes, edges |-> payload.v.edges]
        /\ UNCHANGED <<groupFiles, summaryFile, snapshotsFile, summary_cache,
                       snapshots_cache, probe, calls>>

\* list_reports: services.py 503-504, api.py 97-99. ReportRecord requires
\* timestamp: str and reason: str (models.py 100-105).
ListReports ==
    \E reports \in {loaded_reports} :
        /\ reports_cache' = Some(reports)
        /\ reportsFile' = reports_file_after_load
        /\ last' = IF \E i \in DOMAIN reports :
                         reports[i].timestamp = None \/ reports[i].reason = None
                   THEN Raised("list_reports", 500, "ValidationError", "")
                   ELSE [op |-> "list_reports", status |-> 200, err |-> "",
                         records |-> reports]
        /\ UNCHANGED <<groupFiles, summaryFile, snapshotsFile, groups_cache,
                       summary_cache, snapshots_cache, probe, calls>>

\* A record whose snapshot takes the transaction count for the member count.
ReportPayloadTxCount(timestamp, group_id, reason, checks, target) ==
    ReportEntry(Some(timestamp), Some(group_id), Some(Strip(reason)), checks,
                Some([num_members |-> target.metrics.transaction_count,
                      total_amount |-> target.metrics.total_amount,
                      risk_score |-> target.metrics.risk_score]))

\* The record submit_report builds: services.py 515-525
ReportPayload(timestamp, group_id, reason, checks, target) ==
    ReportEntry(Some(timestamp), Some(group_id), Some(Strip(reason)), checks,
                Some([num_members |-> target.metrics.member_count,
                      total_amount |-> target.metrics.total_amount,
                      risk_score |-> target.metrics.risk_score]))

\* A submit_report that puts the new record first.
prepend_report(reports, payload) == <<payload>> \o reports

\* updated_reports = reports + [payload]: services.py 526
append_report(reports, payload) == Append(reports, payload)

\* An update that replaces the cached view and forgets to persist it.
update_reports_cache_unpersisted(reports) ==
    /\ reports_cache' = Some(reports)
    /\ reportsFile' = reportsFile

\* _update_reports_cache: services.py 348-350
update_reports_cache(reports) ==
    /\ reports_cache' = Some(reports)
    /\ reportsFile' = write_reports(reports)

\* A submit_report that loads the groups and the ledger before it validates
\* the request.
SubmitReportLoadsFirst(group_id, reason, checks, timestamp) ==
    \E g \in {load_groups}, reports \in {loaded_reports} :
    \E target \in {FindGroup(g.v, group_id)} :
        IF ~g.ok
        THEN /\ last' = Raised("submit_report", create_report_status(g.err), g.err, "")
                          @@ [group_id |-> group_id, reason |-> reason]
             /\ UNCHANGED <<groups_cache, reports_cache, reportsFile>>
        ELSE IF Strip(reason) = "" \/ target = None
        THEN /\ groups_cache' = Some(g.v)
             /\ reports_cache' = Some(reports)
             /\ reportsFile' = reports_file_after_load
             /\ last' = Raised("submit_report", create_report_status("ValueError"),
                                "ValueError",
                                IF Strip(reason) = "" THEN "reason required"
                                ELSE "not found")
                          @@ [group_id |-> group_id, reason |-> reason]
        ELSE \E payload \in {ReportPayload(timestamp, group_id, reason, checks,
                                            target[1])} :
             \E updated_reports \in {append_report(reports, payload)} :
                 /\ Len(reports) < MaxReports
                 /\ groups_cache' = Some(g.v)
                 /\ update_reports_cache(updated_reports)
                 /\ last' = [op |-> "submit_report", status |-> 200, err |-> "",
                             detail |-> "", group_id |-> group_id, reason |-> reason,
                             record |-> payload,
                             total_reports |-> Len(updated_reports)]

\* submit_report: services.py 506-531, api.py 102-107
SubmitReport(group_id, reason, checks, timestamp) ==
    \E g \in {load_groups},
       reports \in {IF reports_cache = None
                    THEN load_reports(ensure_reports_file(reportsFile))
                    ELSE reports_cache[1]} :
    \E target \in {FindGroup(g.v, group_id)} :
        IF Strip(reason) = ""
        THEN /\ last' = Raised("submit_report", create_report_status("ValueError"),
                                "ValueError", "reason required")
                          @@ [group_id |-> group_id, reason |-> reason]
             /\ UNCHANGED <<groups_cache, reports_cache, reportsFile>>
        ELSE IF ~g.ok
        THEN /\ last' = Raised("submit_report", create_report_status(g.err), g.err, "")
                          @@ [group_id |-> group_id, reason |-> reason]
             /\ UNCHANGED <<groups_cache, reports_cache, reportsFile>>
        ELSE IF target = None
        THEN /\ groups_cache' = Some(g.v)
             /\ last' = Raised("submit_report", create_report_status("ValueError"),
                                "ValueError", "not found")
                          @@ [group_id |-> group_id, reason |-> reason]
             /\ UNCHANGED <<reports_cache, reportsFile>>
        ELSE \E payload \in {ReportPayload(timestamp, group_id, reason, checks,
                                            target[1])} :
             \E updated_reports \in {append_report(reports, payload)} :
                 /\ Len(reports) < MaxReports
                 /\ groups_cache' = Some(g.v)
                 /\ update_reports_cache(updated_reports)
                 /\ last' = [op |-> "submit_report", status |-> 200, err |-> "",
                             detail |-> "", group_id |-> group_id, reason |-> reason,
                             record |-> payload,
                             total_reports |-> Len(updated_reports)]

\* A refresh that leaves the enriched groups cached.
RefreshKeepsGroups ==
    /\ summary_cache' = None
    /\ snapshots_cache' = None
    /\ reports_cache' = None
    /\ last' = [op |-> "refresh", status |-> 204, err |-> ""]
    /\ UNCHANGED <<groupFiles, summaryFile, snapshotsFile, reportsFile, groups_cache,
                   probe, calls>>

\* refresh: services.py 533-539, api.py 115-117
Refresh ==
    /\ groups_cache' = None
    /\ summary_cache' = None
    /\ snapshots_cache' = None
    /\ reports_cache' = None
    /\ last' = [op |-> "refresh", status |-> 204, err |-> ""]
    /\ UNCHANGED <<groupFiles, summaryFile, snapshotsFile, reportsFile, probe, calls>>

\* get_dataset_summary: services.py 361-385 (the summary blob of the model has
\* no "runs" list: one run is reported, named by run_id).
GetDatasetSummary ==
    \E g \in {load_groups}, summary_payload \in {loaded_summary} :
        /\ groups_cache' = groups_cache_after(g)
        /\ summary_cache' = IF g.ok THEN Some(summary_payload) ELSE summary_cache
        /\ last' = IF ~g.ok THEN Raised("get_dataset_summary", 500, g.err, "")
                   ELSE [op |-> "get_dataset_summary", status |-> 200, err |-> "",
                         runs |-> IF summary_payload.empty \/ summary_payload.run_id = None
                                  THEN <<"current_run">>
                                  ELSE summary_payload.run_id,
                         aggregated |-> summarize_groups(g.v),
                         total_groups |-> Len(g.v),
                         total_records |-> summary_payload.total_records]
        /\ UNCHANGED <<groupFiles, summaryFile, snapshotsFile, reportsFile,
                       snapshots_cache, reports_cache, probe, calls>>

\* list_snapshots: services.py 541-544, api.py 110-112 (limit >= 1)
ListSnapshots(limit) ==
    \E snapshots \in {loaded_snapshots} :
        /\ snapshots_cache' = Some(snapshots)
        /\ last' = [op |-> "list_snapshots", status |-> 200, err |-> "",
                    items |-> SubSeq(snapshots, 1, Min2(limit, Len(snapshots))),
                    total |-> Len(snapshots), limit |-> limit]
        /\ UNCHANGED <<groupFiles, summaryFile, snapshotsFile, reportsFile,
                       groups_cache, summary_cache, reports_cache, probe, calls>>

\* The pipeline that produces the group artifacts rewrites artifacts/entities.
ArtifactChange ==
    /\ \E d \in Datasets \ {groupFiles} : groupFiles' = d
    /\ last' = [op |-> "artifact_change", status |-> 0, err |-> ""]
    /\ UNCHANGED <<summaryFile, snapshotsFile, reportsFile, groups_cache,
                   summary_cache, snapshots_cache, reports_cache, probe, calls>>

-----------------------------------------------------------------------------
(* The service: one worker handling one request at a time *)

NoProbe == [fn |-> "none"]

ServiceInit ==
    /\ groupFiles \in Datasets
    /\ summaryFile = SummaryArtifact
    /\ snapshotsFile = SnapshotsArtifact
    /\ reportsFile \in InitialReportsFiles
    /\ groups_cache = None
    /\ summary_cache = None
    /\ snapshots_cache = None
    /\ reports_cache = None
    /\ last = [op |-> "init", status |-> 0, err |-> ""]
    /\ calls = <<>>

Init == ServiceInit /\ probe = NoProbe

SubmitReportRequest ==
    /\ \E group_id \in RequestIds, reason \in Reasons, checks \in CheckLists,
          timestamp \in Clock : SubmitReport(group_id, reason, checks, timestamp)
    /\ UNCHANGED <<groupFiles, summaryFile, snapshotsFile, summary_cache,
                   snapshots_cache, probe, calls>>

Next ==
    \/ \E filters \in FilterChoices : ListGroups(filters)
    \/ \E group_id \in RequestIds : GetGroupDetail(group_id, DefaultTransactionFilters)
    \/ \E highlight_reported \in BOOLEAN : GetNetwork(DefaultFilters, highlight_reported)
    \/ ListReports
    \/ SubmitReportRequest
    \/ Refresh
    \/ GetDatasetSummary
    \/ \E limit \in SnapshotLimits : ListSnapshots(limit)
    \/ ArtifactChange

Spec == Init /\ [][Next]_vars

-----------------------------------------------------------------------------
(* Properties of the service *)

\* The ledger as persisted: what load_reports reads from reports.json.
PersistedLedger == load_reports(reportsFile)

SnapshotOf(group) ==
    Some([num_members |-> group.metrics.member_count,
          total_amount |-> group.metrics.total_amount,
          risk_score |-> group.metrics.risk_score])

SubmitSucceeded == last.op = "submit_report" /\ last.status = 200

\* C1: a successful submit_report makes the report ledger exactly one record
\* longer: the new ledger is the ledger as loaded before the call followed by
\* the new record, and the record's snapshot holds member_count, total_amount
\* and risk_score of the cached enriched group with the submitted id.
C1_SubmitAppendsOneRecord ==
    [][(last'.op = "submit_report" /\ last'.status = 200) =>
          LET before == loaded_reports
              after == load_reports(reportsFile')
              target == FindGroup(groups_cache'[1], last'.group_id)
          IN  /\ Len(after) = Len(before) + 1
              /\ SubSeq(after, 1, Len(before)) = before
              /\ after[Len(after)] = last'.record
              /\ last'.total_reports = Len(after)
              /\ target # None
              /\ last'.record.group_id = Some(last'.group_id)
              /\ last'.record.snapshot = SnapshotOf(target[1])]_vars

\* C1 witness: a second report was just appended to a ledger of one.
C1_Witness == SubmitSucceeded /\ last.total_reports = 2 /\ Len(PersistedLedger) = 2

C3_LedgerAppendOnly ==
    [][IsPrefix(PersistedLedger, load_reports(reportsFile'))]_vars

\* C3 witness: the same group was reported twice with different snapshots
\* (its data changed in between) and the caches were refreshed afterwards.
C3_Witness ==
    /\ last.op = "refresh"
    /\ Len(PersistedLedger) >= 2
    /\ \E i, j \in DOMAIN PersistedLedger :
          /\ i < j
          /\ PersistedLedger[i].group_id = PersistedLedger[j].group_id
          /\ PersistedLedger[i].snapshot # None
          /\ PersistedLedger[j].snapshot # None
          /\ PersistedLedger[i].snapshot # PersistedLedger[j].snapshot

\* The enriched groups as a load from artifacts/entities yields them now.
FreshGroups == EnrichAll(load_group_payloads(groupFiles), 1, <<>>)

\* C4: refresh() leaves all four caches empty, the first access to a cache
\* that is empty reloads it from its artifact, and a list_groups that finds
\* the group cache empty answers from the group artifacts as they are now.
C4_RefreshClearsAndReloads ==
    /\ [](last.op = "refresh" =>
             /\ groups_cache = None
             /\ summary_cache = None
             /\ snapshots_cache = None
             /\ reports_cache = None)
    /\ [][/\ (groups_cache = None /\ groups_cache' # None) =>
                groups_cache' = Some(FreshGroups.v)
          /\ (summary_cache = None /\ summary_cache' # None) =>
                summary_cache' = Some(load_summary(summaryFile))
          /\ (snapshots_cache = None /\ snapshots_cache' # None) =>
                snapshots_cache' = Some(load_snapshots(snapshotsFile))
          /\ (reports_cache = None /\ reports_cache' # None) =>
                reports_cache' = Some(load_reports(reportsFile'))
          /\ (groups_cache = None /\ last'.op = "list_groups" /\ last'.status = 200) =>
                LET rids == reported_ids(load_reports(reportsFile'))
                    fresh == filter_groups(FreshGroups.v, last'.filters, rids)
                IN  last'.items = [i \in DOMAIN fresh |-> GroupSummaryOf(fresh[i], rids)]
         ]_vars

\* C4 witness: list_groups has just answered from the regenerated artifact
\* of g1, while the ledger still holds a snapshot of g1 taken from the cache
\* of the older artifact: the cache was refreshed and reloaded in between.
C4_Witness ==
    /\ last.op = "list_groups"
    /\ last.status = 200
    /\ groupFiles = <<GroupA2, GroupB>>
    /\ groups_cache = Some(FreshGroups.v)
    /\ \E i \in DOMAIN PersistedLedger :
          /\ PersistedLedger[i].group_id = Some("g1")
          /\ PersistedLedger[i].snapshot # None
          /\ PersistedLedger[i].snapshot # SnapshotOf(groups_cache[1][1])

\* C5: the cached ledger view never differs from the persisted ledger, and
\* after a successful submit_report both end with the submitted record.
C5_CacheEqualsPersistedLedger ==
    /\ reports_cache # None => reports_cache[1] = PersistedLedger
    /\ SubmitSucceeded =>
          /\ reports_cache # None
          /\ PersistedLedger # <<>>
          /\ PersistedLedger[Len(PersistedLedger)] = last.record

\* C5 witness: a submit_report has just returned and the ledger is cached.
C5_Witness ==
    /\ SubmitSucceeded
    /\ reports_cache # None
    /\ Len(reports_cache[1]) = 2

\* C6 as stated: no operation fails because of dirty data; the only failures
\* are the NotFound and InvalidInput rejections of a request (404 and 400).
C6_NoFailureFromDirtyData == last.status \in {0, 200, 204, 400, 404}

\* C13 as stated: the reported-group collection of list_groups and
\* get_network is the projection of group_id out of every ledger entry, in
\* ledger order and keeping duplicates: it has one element per ledger entry,
\* a group id occurs in it as often as the ledger has entries for that group,
\* and a group is flagged reported iff some ledger entry carries its id.
C13_ReportedIdsProjectEveryEntry ==
    (last.op = "list_groups" /\ last.status = 200) =>
        /\ Len(last.reported_ids) = Len(PersistedLedger)
        /\ \A i \in DOMAIN last.reported_ids :
               PersistedLedger[i].group_id = Some(last.reported_ids[i])
        /\ \A id \in RequestIds :
               Cardinality({k \in DOMAIN last.reported_ids : last.reported_ids[k] = id})
                 = Cardinality({i \in DOMAIN PersistedLedger :
                                   PersistedLedger[i].group_id = Some(id)})
        /\ \A i \in DOMAIN last.items :
               last.items[i].reported <=>
                   \E j \in DOMAIN PersistedLedger :
                       PersistedLedger[j].group_id = last.items[i].group_id

\* C13 amended: the collection is the projection of group_id out of the
\* ledger entries that have a non-empty group_id, in ledger order and keeping
\* duplicates; entries that name no group are left out. A group id occurs in
\* it as often as the ledger has entries for that group, list_groups flags a
\* group reported iff some ledger entry carries its id, and get_network
\* highlights a group node iff highlighting was asked for and some ledger
\* entry carries its id.
C13_ReportedIdsProjectEntriesWithId ==
    LET ledger == PersistedLedger
        withId == SelectSeq(ledger, LAMBDA e : e.group_id # None /\ e.group_id[1] # "")
        Carried(id) == \E j \in DOMAIN ledger : ledger[j].group_id = Some(id)
    IN  /\ (last.op = "list_groups" /\ last.status = 200) =>
              /\ last.reported_ids = [k \in DOMAIN withId |-> withId[k].group_id[1]]
              /\ \A id \in RequestIds :
                     Cardinality({k \in DOMAIN last.reported_ids :
                                     last.reported_ids[k] = id})
                       = Cardinality({i \in DOMAIN ledger : ledger[i].group_id = Some(id)})
              /\ \A i \in DOMAIN last.items :
                     last.items[i].reported <=> Carried(last.items[i].group_id[1])
        /\ (last.op = "get_network" /\ last.status = 200) =>
              \A i \in DOMAIN last.nodes :
                  last.nodes[i].kind = "group" =>
                      (last.nodes[i].highlight <=>
                          (last.highlight_reported /\ Carried(last.nodes[i].id)))

\* C13 witness: list_groups answered with a group that was reported twice and
\* a group that was never reported.
C13_Witness ==
    /\ last.op = "list_groups"
    /\ last.status = 200
    /\ \E k, l \in DOMAIN last.reported_ids :
           k < l /\ last.reported_ids[k] = last.reported_ids[l]
    /\ \E i, j \in DOMAIN last.items :
           last.items[i].reported /\ ~last.items[j].reported

\* C15: a cache that is populated is changed by refresh() only (the report
\* cache also by submit_report), so between two refreshes each cache is
\* loaded at most once; and a list_groups that finds the group cache
\* populated answers from the cached enriched groups, whatever the group
\* artifacts have become since they were loaded.
C15_PopulatedCacheKeptUntilRefresh ==
    [][/\ (groups_cache # None /\ last'.op # "refresh") =>
              groups_cache' = groups_cache
       /\ (summary_cache # None /\ last'.op # "refresh") =>
              summary_cache' = summary_cache
       /\ (snapshots_cache # None /\ last'.op # "refresh") =>
              snapshots_cache' = snapshots_cache
       /\ (reports_cache # None /\ last'.op \notin {"refresh", "submit_report"}) =>
              reports_cache' = reports_cache
       /\ (groups_cache # None /\ last'.op = "list_groups" /\ last'.status = 200) =>
              LET rids == reported_ids(load_reports(reportsFile'))
                  cached == filter_groups(groups_cache[1], last'.filters, rids)
              IN  last'.items = [i \in DOMAIN cached |-> GroupSummaryOf(cached[i], rids)]
      ]_vars

\* C15 witness: list_groups answered from enriched groups that are no longer
\* what the group artifacts would give.
C15_Witness ==
    /\ last.op = "list_groups"
    /\ last.status = 200
    /\ groups_cache # None
    /\ FreshGroups.ok
    /\ groups_cache[1] # FreshGroups.v
    /\ last.items # <<>>

\* C19: a rejected submit_report (blank reason, or unknown group id) leaves
\* the report ledger as it was: the cached ledger view, the persisted ledger
\* and the reported-group collection are the same before and after the call.
\* A blank reason is rejected as such also when the group id is unknown, and
\* then no cache is loaded; an unknown group is rejected after the group
\* cache was loaded.
C19_RejectedSubmitLeavesLedger ==
    [][(last'.op = "submit_report" /\ last'.status = 400) =>
          /\ reports_cache' = reports_cache
          /\ reportsFile' = reportsFile
          /\ reported_ids(load_reports(reportsFile')) = reported_ids(PersistedLedger)
          /\ summary_cache' = summary_cache
          /\ snapshots_cache' = snapshots_cache
          /\ Strip(last'.reason) = "" =>
                /\ last'.detail = "reason required"
                /\ groups_cache' = groups_cache
          /\ Strip(last'.reason) # "" =>
                /\ last'.detail = "not found"
                /\ groups_cache' # None
                /\ FindGroup(groups_cache'[1], last'.group_id) = None
      ]_vars

\* C19 witness: a report with a blank reason for a group nobody knows was
\* rejected for its reason while the ledger held an entry and no cache was
\* loaded.
C19_Witness ==
    /\ last.op = "submit_report"
    /\ last.status = 400
    /\ last.detail = "reason required"
    /\ last.group_id = "zz"
    /\ PersistedLedger # <<>>
    /\ groups_cache = None
    /\ reports_cache = None
    /\ summary_cache = None
    /\ snapshots_cache = None

-----------------------------------------------------------------------------
(* The pure functions, each applied to inputs drawn from bounded sets *)

\* The service at rest while a function is applied on its own.
ServiceIdle ==
    /\ groupFiles = <<>>
    /\ summaryFile = SummaryArtifact
    /\ snapshotsFile = SnapshotsArtifact
    /\ reportsFile = [kind |-> "missing", entries |-> <<>>]
    /\ groups_cache = None
    /\ summary_cache = None
    /\ snapshots_cache = None
    /\ reports_cache = None
    /\ last = [op |-> "init", status |-> 0, err |-> ""]
    /\ calls = <<>>

Call(fn, args) == [fn |-> fn, pc |-> "call", args |-> args, out |-> None]

Done(fn) == probe.fn = fn /\ probe.pc = "done"

\* Sequences over S of length at most n.
RECURSIVE SeqsUpTo(_, _)
SeqsUpTo(S, n) ==
    IF n = 0 THEN {<<>>}
    ELSE LET shorter == SeqsUpTo(S, n - 1)
         IN  shorter \cup {Append(q, x) : q \in {r \in shorter : Len(r) = n - 1}, x \in S}

\* Counts given to compute_risk_score range over 0..MaxCount.
MaxCount == 6

\* Transactions per group given to enrich_group.
MaxTx == 2

\* Total amounts in mills: negative, zero, small, 250000.0, 2000000.0 and
\* the infinite float.
TotalSamples == {-5000, 0, 125, 50000, 250000000, 2000000000, Infinity}

RatioSamples ==
    {[num |-> 0, den |-> 1], [num |-> 1, den |-> 3], [num |-> 1, den |-> 2],
     [num |-> 1, den |-> 1]}

RiskInputs ==
    [member_count : 0..MaxCount, transaction_count : 0..MaxCount,
     total_amount : TotalSamples, unique_counterparties : 0..MaxCount,
     outgoing_ratio : RatioSamples]

EnrichDirections ==
    {None, Some("out"), Some("OUT"), Some("Debit"), Some("in"), Some("Wire")}

EnrichTxs ==
    {Tx(amount, counterparty_id, direction, Null) :
        amount \in {Null, Num(125), Num(Infinity)},
        counterparty_id \in {None, Some("C1")},
        direction \in EnrichDirections}
      \cup {Tx(Num(125), Some("C1"), Some("out"), Str("2024-01-02T00:00:00"))}

\* Raw groups of at most max_tx transactions.
EnrichInputs(max_tx) ==
    {GroupFile(Some("g1"), members, transactions, None, None) :
        members \in {<<>>, <<Member(Some("r1"), <<"sigA">>)>>},
        transactions \in SeqsUpTo(EnrichTxs, max_tx)}

ApplyRisk ==
    /\ probe.fn = "compute_risk_score"
    /\ probe.pc = "call"
    /\ probe' = [probe EXCEPT
                    !.pc = "done",
                    !.out = compute_risk_score(probe.args.member_count,
                                               probe.args.transaction_count,
                                               probe.args.total_amount,
                                               probe.args.unique_counterparties,
                                               probe.args.outgoing_ratio)]
    /\ UNCHANGED serviceVars

ApplyEnrich ==
    /\ probe.fn = "enrich_group"
    /\ probe.pc = "call"
    /\ probe' = [probe EXCEPT !.pc = "done", !.out = enrich_group(probe.args)]
    /\ UNCHANGED serviceVars

InitEnrich ==
    /\ ServiceIdle
    /\ probe \in {Call("compute_risk_score", a) : a \in RiskInputs}
                   \cup {Call("enrich_group", g) : g \in EnrichInputs(MaxTx)}

NextEnrich == ApplyRisk \/ ApplyEnrich

SpecEnrich == InitEnrich /\ [][NextEnrich]_vars

\* C7 as stated: compute_risk_score returns an integer in [1, 99] for every
\* combination of counts, total amount (zero, negative and very large
\* included) and outgoing ratio, and so every enriched group has a risk_score
\* in [1, 99].
C7_RiskScoreWithinBounds ==
    /\ Done("compute_risk_score") => (probe.out.ok /\ probe.out.v \in 1..99)
    /\ (Done("enrich_group") /\ probe.out.ok) =>
          probe.out.v.metrics.risk_score \in 1..99

\* C8: the enriched outgoing_ratio is the number of transactions whose
\* lower-cased direction is out, outgoing or debit divided by the number of
\* all transactions (unknown and missing directions count in the
\* denominator); it lies in [0, 1] and is 0 for a group without transactions.
C8_OutgoingRatio ==
    (Done("enrich_group") /\ probe.out.ok) =>
        LET txs == probe.args.transactions
            outgoing == {i \in DOMAIN txs :
                            /\ txs[i].direction # None
                            /\ Lower(txs[i].direction[1]) \in {"out", "outgoing", "debit"}}
            ratio == probe.out.v.metrics.outgoing_ratio
        IN  /\ ratio.den > 0
            /\ 0 <= ratio.num
            /\ ratio.num <= ratio.den
            /\ txs = <<>> => ratio.num = 0
            /\ txs # <<>> => /\ ratio.num = Cardinality(outgoing)
                            /\ ratio.den = Len(txs)

\* C8 witness: of two transactions, one marked "OUT" and one without a
\* direction, half are outgoing.
C8_Witness ==
    /\ Done("enrich_group")
    /\ probe.out.ok
    /\ probe.out.v.metrics.outgoing_ratio = [num |-> 1, den |-> 2]
    /\ \E i, j \in DOMAIN probe.args.transactions :
          /\ probe.args.transactions[i].direction = Some("OUT")
          /\ probe.args.transactions[j].direction = None

-----------------------------------------------------------------------------
(* build_network_payload on bounded inputs *)

\* Transactions in one input of build_network_payload, over all its groups.
MaxNetTx == 3

\* An incoming and an outgoing transfer with an outside counterparty, two with
\* a counterparty that is itself a group, a string amount that reads as a
\* number, a transaction with neither amount nor direction, and one without
\* a counterparty. (A string amount that reads as no number is in the
\* datasets of the service.)
NetTxs ==
    {Tx(Num(125), Some("C1"), Some("OUT"), Null),
     Tx(Num(50000), Some("C1"), Some("in"), Null),
     Tx(Num(125), Some("g2"), Some("Debit"), Null),
     Tx(Num(50000), Some("g1"), Some("Credit"), Null),
     Tx(Str("12.5"), Some("C1"), Some("out"), Null),
     Tx(Null, Some("C1"), None, Null),
     Tx(Num(125), None, Some("out"), Null)}

\* The identifiers of the one or two groups of an input.
NetGroupIds ==
    {<<Some("g1")>>, <<None>>, <<Some("g1"), Some("g2")>>, <<Some("g2"), Some("g1")>>,
     <<Some("g1"), Some("g1")>>, <<None, Some("g2")>>}

NetReported ==
    {[reported_ids |-> <<>>, highlight_reported |-> TRUE],
     [reported_ids |-> <<"g1", "g1">>, highlight_reported |-> TRUE],
     [reported_ids |-> <<"g1">>, highlight_reported |-> FALSE]}

\* The ways to deal a list of transactions to n groups (n is 1 or 2).
Deal(q, n) ==
    IF n = 1 THEN {<<q>>}
    ELSE {<<SubSeq(q, 1, k), SubSeq(q, k + 1, Len(q))>> : k \in 0..Len(q)}

NetDeals(max_tx) == UNION {Deal(q, 1) \cup Deal(q, 2) : q \in SeqsUpTo(NetTxs, max_tx)}

\* One or two groups holding at most max_tx transactions between them.
NetInputs(max_tx) ==
    {[groups |-> [i \in DOMAIN x.ids |-> GroupFile(x.ids[i], <<>>, x.d[i], None, None)],
      reported_ids |-> x.r.reported_ids,
      highlight_reported |-> x.r.highlight_reported] :
        x \in {y \in [ids : NetGroupIds, r : NetReported, d : NetDeals(max_tx)] :
                  Len(y.d) = Len(y.ids)}}

ApplyNetwork ==
    /\ probe.fn = "build_network_payload"
    /\ probe.pc = "call"
    /\ LET enriched == EnrichAll(probe.args.groups, 1, <<>>)
       IN  probe' = [probe EXCEPT
                        !.pc = "done",
                        !.out = IF enriched.ok
                                THEN build_network_payload(enriched.v,
                                                           probe.args.reported_ids,
                                                           probe.args.highlight_reported)
                                ELSE enriched]
    /\ UNCHANGED serviceVars

InitNetwork ==
    /\ ServiceIdle
    /\ probe \in {Call("build_network_payload", a) : a \in NetInputs(MaxNetTx)}

NextNetwork == ApplyNetwork

SpecNetwork == InitNetwork /\ [][NextNetwork]_vars

\* C9 as stated: each edge (source, target) of the graph has count equal to
\* the number of transactions with a counterparty that map to that ordered
\* pair and amount equal to the sum of their amounts rounded to 2 decimals, an
\* absent or non-numeric amount contributing 0; every such transaction is in
\* an edge, and transactions without a counterparty are in none. The
\* contributions are, for every transaction that has a counterparty, of a
\* group that has an identifier, the ordered pair it maps to and its amount.
C9_EdgeTotals ==
    (Done("build_network_payload") /\ probe.out.ok) =>
        LET groups == probe.args.groups
            edges == probe.out.v.edges
            Contribution(group_id, tx) ==
                LET incoming == /\ tx.direction # None
                                /\ Lower(tx.direction[1]) \in {"in", "incoming", "credit"}
                IN  [source |-> IF incoming THEN tx.counterparty_id[1] ELSE group_id,
                     target |-> IF incoming THEN group_id ELSE tx.counterparty_id[1],
                     amount |-> IF tx.amount.ty = "num" THEN tx.amount.n ELSE 0]
            cs == Flatten([i \in DOMAIN groups |->
                      IF ~TruthyStr(groups[i].group_id) THEN <<>>
                      ELSE Flatten([j \in DOMAIN groups[i].transactions |->
                          IF ~TruthyStr(groups[i].transactions[j].counterparty_id)
                          THEN <<>>
                          ELSE <<Contribution(groups[i].group_id[1],
                                              groups[i].transactions[j])>>])])
            Of(e) == SelectSeq(cs, LAMBDA c : c.source = e.source /\ c.target = e.target)
            RECURSIVE Sum(_)
            Sum(q) == IF q = <<>> THEN 0 ELSE Head(q).amount + Sum(Tail(q))
        IN  /\ \A i \in DOMAIN edges :
                  /\ edges[i].count = Len(Of(edges[i]))
                  /\ edges[i].amount = Round2(Sum(Of(edges[i])))
            /\ \A k \in DOMAIN cs :
                  \E i \in DOMAIN edges :
                      edges[i].source = cs[k].source /\ edges[i].target = cs[k].target

\* C16 as stated: every transaction with a counterparty contributes to the
\* edge counterparty -> group when its lower-cased direction is in, incoming
\* or credit, and to the edge group -> counterparty otherwise; there is at
\* most one edge per ordered (source, target) pair, and edges between the
\* same endpoints in opposite directions stay two edges.
C16_EveryTransactionHasItsEdge ==
    (Done("build_network_payload") /\ probe.out.ok) =>
        LET groups == probe.args.groups
            edges == probe.out.v.edges
            Incoming(tx) == /\ tx.direction # None
                            /\ Lower(tx.direction[1]) \in {"in", "incoming", "credit"}
        IN  /\ \A i \in DOMAIN groups : \A j \in DOMAIN groups[i].transactions :
                  LET tx == groups[i].transactions[j]
                      group_id == groups[i].group_id
                  IN  (tx.counterparty_id # None /\ tx.counterparty_id[1] # "") =>
                          \E e \in DOMAIN edges :
                              /\ group_id # None
                              /\ IF Incoming(tx)
                                 THEN /\ edges[e].source = tx.counterparty_id[1]
                                      /\ edges[e].target = group_id[1]
                                 ELSE /\ edges[e].source = group_id[1]
                                      /\ edges[e].target = tx.counterparty_id[1]
            /\ \A e, f \in DOMAIN edges :
                  (edges[e].source = edges[f].source /\ edges[e].target = edges[f].target)
                      => e = f

\* C16 amended: every transaction with a counterparty, of a group that has
\* an identifier, contributes to the edge counterparty -> group when its
\* lower-cased direction is in, incoming or credit, and to the edge group ->
\* counterparty otherwise (out, outgoing, debit, unknown or missing); the
\* transactions of a group without identifier contribute to no edge. There is
\* at most one edge per ordered (source, target) pair, each edge counts
\* exactly the transactions that map to its ordered pair, so transfers in
\* opposite directions between two endpoints are two edges, never merged.
C16_EdgesFollowDirection ==
    (Done("build_network_payload") /\ probe.out.ok) =>
        LET groups == probe.args.groups
            edges == probe.out.v.edges
            Incoming(tx) == /\ tx.direction # None
                            /\ Lower(tx.direction[1]) \in {"in", "incoming", "credit"}
            Contributes(i, j) ==
                /\ groups[i].group_id # None
                /\ groups[i].group_id[1] # ""
                /\ groups[i].transactions[j].counterparty_id # None
                /\ groups[i].transactions[j].counterparty_id[1] # ""
            Source(i, j) == IF Incoming(groups[i].transactions[j])
                            THEN groups[i].transactions[j].counterparty_id[1]
                            ELSE groups[i].group_id[1]
            Target(i, j) == IF Incoming(groups[i].transactions[j])
                            THEN groups[i].group_id[1]
                            ELSE groups[i].transactions[j].counterparty_id[1]
            Of(e) == {ij \in UNION {{<<i, j>> : j \in DOMAIN groups[i].transactions} :
                                       i \in DOMAIN groups} :
                         /\ Contributes(ij[1], ij[2])
                         /\ Source(ij[1], ij[2]) = edges[e].source
                         /\ Target(ij[1], ij[2]) = edges[e].target}
        IN  /\ \A i \in DOMAIN groups : \A j \in DOMAIN groups[i].transactions :
                  Contributes(i, j) =>
                      \E e \in DOMAIN edges :
                          edges[e].source = Source(i, j) /\ edges[e].target = Target(i, j)
            /\ \A e, f \in DOMAIN edges :
                  (edges[e].source = edges[f].source /\ edges[e].target = edges[f].target)
                      => e = f
            /\ \A e \in DOMAIN edges :
                  /\ Of(e) # {}
                  /\ edges[e].count = Cardinality(Of(e))

\* C16 witness: a group paid a counterparty, was paid by it, and made a
\* transfer of no stated direction to it: an edge each way, the one from the
\* group counting two transactions.
C16_Witness ==
    /\ Done("build_network_payload")
    /\ probe.out.ok
    /\ \E e, f \in DOMAIN probe.out.v.edges :
           /\ probe.out.v.edges[e].source = "g1"
           /\ probe.out.v.edges[e].target = "C1"
           /\ probe.out.v.edges[e].count = 2
           /\ probe.out.v.edges[f].source = "C1"
           /\ probe.out.v.edges[f].target = "g1"
    /\ \E i \in DOMAIN probe.args.groups : \E j \in DOMAIN probe.args.groups[i].transactions :
           /\ probe.args.groups[i].transactions[j].direction = None
           /\ probe.args.groups[i].transactions[j].counterparty_id # None

\* C17: the node list has exactly one node for each distinct identifier of
\* the input groups that have one, of kind "group", also when the identifier
\* is a counterparty of a group processed before or after; no two nodes share
\* an id; a group node is highlighted iff highlight_reported is true and its
\* id is among the reported ids; a counterparty node is never highlighted.
C17_OneGroupNodePerIdentifier ==
    (Done("build_network_payload") /\ probe.out.ok) =>
        LET groups == probe.args.groups
            nodes == probe.out.v.nodes
            ids == {groups[i].group_id[1] :
                       i \in {k \in DOMAIN groups :
                                 groups[k].group_id # None /\ groups[k].group_id[1] # ""}}
            reported == {probe.args.reported_ids[k] : k \in DOMAIN probe.args.reported_ids}
        IN  /\ \A id \in ids :
                  /\ Cardinality({n \in DOMAIN nodes : nodes[n].id = id}) = 1
                  /\ \A n \in DOMAIN nodes : nodes[n].id = id => nodes[n].kind = "group"
            /\ \A n, m \in DOMAIN nodes : nodes[n].id = nodes[m].id => n = m
            /\ \A n \in DOMAIN nodes :
                  /\ nodes[n].kind \in {"group", "counterparty"}
                  /\ nodes[n].kind = "group" =>
                        /\ nodes[n].id \in ids
                        /\ nodes[n].highlight <=>
                               (probe.args.highlight_reported /\ nodes[n].id \in reported)
                  /\ nodes[n].kind = "counterparty" => ~nodes[n].highlight

\* C17 witness: group g1 has a transaction with counterparty g2 and is
\* processed before group g2; g1 is reported and highlighted, and both have
\* a group node.
C17_Witness ==
    /\ Done("build_network_payload")
    /\ probe.out.ok
    /\ Len(probe.args.groups) = 2
    /\ probe.args.groups[1].group_id = Some("g1")
    /\ probe.args.groups[2].group_id = Some("g2")
    /\ \E j \in DOMAIN probe.args.groups[1].transactions :
           probe.args.groups[1].transactions[j].counterparty_id = Some("g2")
    /\ \E n, m \in DOMAIN probe.out.v.nodes :
           /\ probe.out.v.nodes[n].id = "g1"
           /\ probe.out.v.nodes[n].highlight
           /\ probe.out.v.nodes[m].id = "g2"
           /\ probe.out.v.nodes[m].kind = "group"
           /\ ~probe.out.v.nodes[m].highlight

-----------------------------------------------------------------------------
(* _select_relevant_snapshots on bounded inputs *)

\* Snapshots in the list given to the correlator.
MaxSnapshots == 3

\* The limit given to the correlator ranges over 0..MaxLimit.
MaxLimit == 2

CorrelatorGroups ==
    {GroupFile(Some("g1"), <<Member(Some("r1"), <<"sigA">>)>>, <<>>, None, Some("TX1")),
     GroupFile(Some("g2"), <<Member(None, <<"sigA", "sigB">>), Member(Some("r2"), <<>>)>>,
               <<>>, None, None),
     GroupFile(Some("g3"), <<>>, <<>>, None, Some(""))}

\* Snapshots matching by all three rules, by one rule each, by none, and an
\* entry of the list that is no JSON object.
CorrelatorSnapshots ==
    {Snapshot(TRUE, Some("r1"), Some("sigA"), Some("TX1")),
     Snapshot(TRUE, Some("r2"), None, None),
     Snapshot(TRUE, None, Some("sigB"), Some("")),
     Snapshot(TRUE, Some("r9"), None, Some("TX1")),
     Snapshot(TRUE, Some("r9"), Some("sigZ"), Some("TX9")),
     Snapshot(FALSE, None, None, None)}

CorrelatorInputs ==
    [group : CorrelatorGroups,
     snapshots : SeqsUpTo(CorrelatorSnapshots, MaxSnapshots),
     limit : 0..MaxLimit]

ApplyCorrelator ==
    /\ probe.fn = "select_relevant_snapshots"
    /\ probe.pc = "call"
    /\ probe' = [probe EXCEPT
                    !.pc = "done",
                    !.out = [positions |->
                                 select_relevant_positions(probe.args.group,
                                                           probe.args.snapshots,
                                                           probe.args.limit),
                             snapshots |->
                                 select_relevant_snapshots(probe.args.group,
                                                           probe.args.snapshots,
                                                           probe.args.limit)]]
    /\ UNCHANGED serviceVars

InitCorrelator ==
    /\ ServiceIdle
    /\ probe \in {Call("select_relevant_snapshots", a) : a \in CorrelatorInputs}

NextCorrelator == ApplyCorrelator

SpecCorrelator == InitCorrelator /\ [][NextCorrelator]_vars

\* The snapshot satisfies at least one of the three match rules.
SatisfiesSomeRule(group, snapshot) ==
    /\ snapshot.is_dict
    /\ \/ RecordIdRule(group, snapshot)
       \/ SignatureRule(group, snapshot)
       \/ TaxIdRule(group, snapshot)

\* The positions of the snapshots that satisfy some rule, ascending.
MatchingPositions(group, snapshots) ==
    SelectSeq([i \in DOMAIN snapshots |-> i],
              LAMBDA i : SatisfiesSomeRule(group, snapshots[i]))

\* C10: the correlator returns a subsequence of the snapshot list in the
\* original order with at most limit entries and no position of the list
\* twice, also when a snapshot satisfies several rules: exactly the first
\* limit snapshots that satisfy at least one rule.
C10_CorrelatorSubsequence ==
    Done("select_relevant_snapshots") =>
        LET positions == probe.out.positions
            matching == MatchingPositions(probe.args.group, probe.args.snapshots)
        IN  /\ Len(positions) <= probe.args.limit
            /\ \A k \in DOMAIN positions : positions[k] \in DOMAIN probe.args.snapshots
            /\ \A k, l \in DOMAIN positions : k < l => positions[k] < positions[l]
            /\ positions = SubSeq(matching, 1, Min2(probe.args.limit, Len(matching)))
            /\ probe.out.snapshots =
                 [k \in DOMAIN positions |-> probe.args.snapshots[positions[k]]]

\* C10 witness: three snapshots match, one of them by all three rules, and
\* the limit of two cut the result.
C10_Witness ==
    /\ Done("select_relevant_snapshots")
    /\ probe.args.limit = 2
    /\ Len(probe.out.positions) = 2
    /\ Len(MatchingPositions(probe.args.group, probe.args.snapshots)) = 3
    /\ \E i \in DOMAIN probe.args.snapshots :
          /\ RecordIdRule(probe.args.group, probe.args.snapshots[i])
          /\ SignatureRule(probe.args.group, probe.args.snapshots[i])
          /\ TaxIdRule(probe.args.group, probe.args.snapshots[i])

-----------------------------------------------------------------------------
(* summarize_groups and filter_groups on bounded inputs *)

\* Groups in the sequence given to summarize_groups and filter_groups.
MaxGroups == 3

\* The raw groups: with them a group without transactions (g3), one whose
\* only amount is the JSON literal NaN (g4), and one seen on day 3 only (g5).
FilterGroupFiles ==
    {GroupA, GroupB, GroupNoId,
     GroupFile(Some("g3"), <<>>, <<>>, None, None),
     GroupFile(Some("g4"), <<>>, <<Tx(Num(NaN), Some("C1"), Some("out"), Null)>>,
               None, None),
     GroupFile(Some("g5"), <<Member(Some("r5"), <<>>)>>,
               <<Tx(Num(250000000), Some("C2"), Some("in"),
                    Str("2024-01-03T00:00:00+00:00"))>>,
               None, None)}

\* GroupFilters values: each bound absent (its default) or given.
FilterSettings ==
    [min_risk : {0, 20}, min_total : {0, 100000}, max_total : {None, Some(200000)},
     start_date : {None, Some(2)}, end_date : {None, Some(2)},
     reported_only : BOOLEAN]

\* Sequences of at most max_groups raw groups, with filters and reported ids.
FilterInputs(max_groups) ==
    [groups : SeqsUpTo(FilterGroupFiles, max_groups), filters : FilterSettings,
     reported_ids : {<<>>, <<"g2", "g1", "g2">>}]

\* summarize_groups applied to the enriched groups.
ApplySummarize ==
    /\ probe.fn = "summarize_groups"
    /\ probe.pc = "call"
    /\ \E enriched \in {EnrichAll(probe.args, 1, <<>>)} :
           probe' = [probe EXCEPT
                        !.pc = "done",
                        !.out = [groups |-> enriched.v,
                                 stats |-> summarize_groups(enriched.v)]]
    /\ UNCHANGED serviceVars

\* filter_groups applied to the enriched groups, and then to its own result.
ApplyFilter ==
    /\ probe.fn = "filter_groups"
    /\ probe.pc = "call"
    /\ \E enriched \in {EnrichAll(probe.args.groups, 1, <<>>)} :
       \E once \in {filter_groups(enriched.v, probe.args.filters,
                                  probe.args.reported_ids)} :
           probe' = [probe EXCEPT
                        !.pc = "done",
                        !.out = [groups |-> enriched.v,
                                 once |-> once,
                                 twice |-> filter_groups(once, probe.args.filters,
                                                         probe.args.reported_ids)]]
    /\ UNCHANGED serviceVars

InitFilter ==
    /\ ServiceIdle
    /\ probe \in {Call("summarize_groups", g) : g \in SeqsUpTo(FilterGroupFiles, MaxGroups)}
                   \cup {Call("filter_groups", a) : a \in FilterInputs(MaxGroups)}

NextFilter == ApplySummarize \/ ApplyFilter

SpecFilter == InitFilter /\ [][NextFilter]_vars

\* C11 as stated: summarize_groups of no groups returns every field absent;
\* of one or more groups it returns min_total_amount <= max_total_amount,
\* min_risk <= max_risk, min_date <= max_date and min_tx_amount <=
\* max_tx_amount for every pair that is present, the date pair being absent
\* exactly when no group has a first or last seen date and the transaction
\* amount pair exactly when no group has a minimum transaction amount.
C11_SummaryBoundsOrdered ==
    Done("summarize_groups") =>
        LET groups == probe.out.groups
            stats == probe.out.stats
            Le(x, y) == x # NaN /\ y # NaN /\ x <= y
            Ordered(lo, hi) == (lo # None /\ hi # None) => Le(lo[1], hi[1])
        IN  /\ groups = <<>> => stats = AllAbsent
            /\ groups # <<>> =>
                  /\ stats.min_total_amount # None
                  /\ stats.max_total_amount # None
                  /\ stats.min_risk # None
                  /\ stats.max_risk # None
                  /\ Ordered(stats.min_total_amount, stats.max_total_amount)
                  /\ Ordered(stats.min_risk, stats.max_risk)
                  /\ Ordered(stats.min_date, stats.max_date)
                  /\ Ordered(stats.min_tx_amount, stats.max_tx_amount)
                  /\ (stats.min_date = None) = (stats.max_date = None)
                  /\ (stats.min_date = None) =
                        (\A i \in DOMAIN groups :
                            /\ groups[i].metrics.first_seen = None
                            /\ groups[i].metrics.last_seen = None)
                  /\ (stats.min_tx_amount = None) = (stats.max_tx_amount = None)
                  /\ (stats.min_tx_amount = None) =
                        (\A i \in DOMAIN groups :
                            groups[i].metrics.min_transaction_amount = None)

\* C12: filter_groups is idempotent: applied to its own result with the same
\* filters and reported ids it returns that result again.
C12_FilterIdempotent ==
    Done("filter_groups") => probe.out.twice = probe.out.once

\* C12 witness: of three groups the filter kept some and dropped some, among
\* the kept ones a group whose total amount is NaN.
C12_Witness ==
    /\ Done("filter_groups")
    /\ Len(probe.out.groups) = 3
    /\ Len(probe.out.once) = 2
    /\ \E i \in DOMAIN probe.out.once : probe.out.once[i].metrics.total_amount = NaN
    /\ probe.args.filters.max_total # None

\* C14 as stated: filter_groups returns, in the order of the input, exactly
\* the groups with risk_score >= min_risk, min_total <= total_amount <=
\* max_total, the group id among the reported ids if reported_only, a
\* last_seen >= start_date if start_date is given, and a first_seen <=
\* end_date if end_date is given; a bound that is not given imposes nothing.
C14_FilterKeepsExactlyMatching ==
    Done("filter_groups") =>
        LET filters == probe.args.filters
            reported == {probe.args.reported_ids[i] : i \in DOMAIN probe.args.reported_ids}
            Le(x, y) == x # NaN /\ y # NaN /\ x <= y
            Matches(g) ==
                /\ g.metrics.risk_score >= filters.min_risk
                /\ Le(filters.min_total, g.metrics.total_amount)
                /\ filters.max_total # None =>
                      Le(g.metrics.total_amount, filters.max_total[1])
                /\ filters.reported_only =>
                      (g.group_id # None /\ g.group_id[1] \in reported)
                /\ filters.start_date # None =>
                      /\ g.metrics.last_seen # None
                      /\ g.metrics.last_seen[1] >= filters.start_date[1]
                /\ filters.end_date # None =>
                      /\ g.metrics.first_seen # None
                      /\ g.metrics.first_seen[1] <= filters.end_date[1]
        IN  probe.out.once = SelectSeq(probe.out.groups, Matches)

-----------------------------------------------------------------------------
(* submit_report on two worker threads that share the GroupService *)
(*                                                                         *)
(* The handlers are plain functions, which the framework runs on a pool of *)
(* threads, and get_service() hands every thread the same instance. A step *)
(* of a call is one statement of submit_report that reads or writes shared *)
(* state (the caches, reports.json); statements on locals go with the step *)
(* before them.                                                            *)

Threads == {1, 2}

\* The requests of the two threads; their reasons differ, so their records do.
WorkerRequests(t) ==
    {[pc |-> "validate", group_id |-> group_id, reason |-> reason, err |-> "",
      target |-> None, reports |-> <<>>, updated_reports |-> <<>>, after |-> {}] :
        group_id \in RequestIds,
        reason \in IF t = 1 THEN {"", " layering "} ELSE {"   ", "smurfing"}}

\* The record the call builds (lines 515-525).
PayloadOf(c) ==
    ReportPayload("2024-06-01T12:00:00Z", c.group_id, c.reason, <<"circular flow">>,
                  c.target[1])

\* if not request.reason.strip(): raise ValueError (lines 507-508)
CallValidate(t) ==
    /\ calls[t].pc = "validate"
    /\ calls' = [calls EXCEPT ![t] =
                    IF Strip(calls[t].reason) = ""
                    THEN [@ EXCEPT !.pc = "raised", !.err = "reason required"]
                    ELSE [@ EXCEPT !.pc = "load_groups"]]
    /\ UNCHANGED <<groupFiles, summaryFile, snapshotsFile, reportsFile, groups_cache,
                   summary_cache, snapshots_cache, reports_cache, last, probe>>

\* groups = self._load_groups(); target = next(...); if not target: raise
\* (lines 509-512)
CallLoadGroups(t) ==
    /\ calls[t].pc = "load_groups"
    /\ \E g \in {load_groups} :
       \E target \in {FindGroup(g.v, calls[t].group_id)} :
           /\ groups_cache' = groups_cache_after(g)
           /\ calls' = [calls EXCEPT ![t] =
                           IF ~g.ok THEN [@ EXCEPT !.pc = "raised", !.err = g.err]
                           ELSE IF target = None
                           THEN [@ EXCEPT !.pc = "raised", !.err = "not found"]
                           ELSE [@ EXCEPT !.pc = "ensure_reports_file",
                                          !.target = target]]
    /\ UNCHANGED <<groupFiles, summaryFile, snapshotsFile, reportsFile, summary_cache,
                   snapshots_cache, reports_cache, last, probe>>

\* ensure_reports_file(self._config.paths.reports_file) (line 513)
CallEnsureReportsFile(t) ==
    /\ calls[t].pc = "ensure_reports_file"
    /\ reportsFile' = ensure_reports_file(reportsFile)
    /\ calls' = [calls EXCEPT ![t].pc = "load_reports"]
    /\ UNCHANGED <<groupFiles, summaryFile, snapshotsFile, groups_cache, summary_cache,
                   snapshots_cache, reports_cache, last, probe>>

\* reports = self._load_reports(); payload = ...; updated_reports = reports +
\* [payload] (lines 514-526). "after" notes the threads whose call had already
\* returned when this one loaded the ledger.
CallLoadReports(t) ==
    /\ calls[t].pc = "load_reports"
    /\ \E reports \in {loaded_reports} :
           /\ reports_cache' = Some(reports)
           /\ reportsFile' = reports_file_after_load
           /\ calls' = [calls EXCEPT ![t] =
                           [@ EXCEPT !.pc = "update_cache",
                                     !.reports = reports,
                                     !.updated_reports =
                                         append_report(reports, PayloadOf(calls[t])),
                                     !.after = {u \in Threads : calls[u].pc = "returned"}]]
    /\ UNCHANGED <<groupFiles, summaryFile, snapshotsFile, groups_cache, summary_cache,
                   snapshots_cache, last, probe>>

\* self._reports_cache = reports (line 349)
CallUpdateCache(t) ==
    /\ calls[t].pc = "update_cache"
    /\ reports_cache' = Some(calls[t].updated_reports)
    /\ calls' = [calls EXCEPT ![t].pc = "write_reports"]
    /\ UNCHANGED <<groupFiles, summaryFile, snapshotsFile, reportsFile, groups_cache,
                   summary_cache, snapshots_cache, last, probe>>

\* write_reports(..., reports); return ReportCreateResponse(...) (lines 350,
\* 528-531)
CallWriteReports(t) ==
    /\ calls[t].pc = "write_reports"
    /\ reportsFile' = write_reports(calls[t].updated_reports)
    /\ calls' = [calls EXCEPT ![t].pc = "returned"]
    /\ UNCHANGED <<groupFiles, summaryFile, snapshotsFile, groups_cache, summary_cache,
                   snapshots_cache, reports_cache, last, probe>>

InitWorkers ==
    /\ groupFiles = <<GroupA, GroupB>>
    /\ summaryFile = SummaryArtifact
    /\ snapshotsFile = SnapshotsArtifact
    /\ reportsFile \in InitialReportsFiles
    /\ groups_cache = None
    /\ summary_cache = None
    /\ snapshots_cache = None
    /\ reports_cache = None
    /\ last = [op |-> "init", status |-> 0, err |-> ""]
    /\ probe = NoProbe
    /\ calls \in {<<c1, c2>> : c1 \in WorkerRequests(1), c2 \in WorkerRequests(2)}

NextWorkers ==
    \E t \in Threads :
        \/ CallValidate(t)
        \/ CallLoadGroups(t)
        \/ CallEnsureReportsFile(t)
        \/ CallLoadReports(t)
        \/ CallUpdateCache(t)
        \/ CallWriteReports(t)

SpecWorkers == InitWorkers /\ [][NextWorkers]_vars

\* C18: the load-append-persist sequence of submit_report is not atomic.
\* When both calls have returned successfully: if one call loaded the ledger
\* after the other had returned (the calls were serialized), the persisted
\* ledger is the ledger the first one loaded followed by the two new records
\* in submission order; if neither did (the calls interleaved), the persisted
\* ledger is the one the last writer built from what it had loaded, and when
\* both had loaded the same ledger it is that ledger followed by exactly one
\* of the two new records: its length grew by 1, not 2.
C18_InterleavedSubmitsLoseARecord ==
    (calls[1].pc = "returned" /\ calls[2].pc = "returned") =>
        /\ \A t \in Threads : \A u \in Threads \ {t} :
              u \in calls[t].after =>
                  /\ calls[t].reports = calls[u].updated_reports
                  /\ PersistedLedger =
                        calls[u].reports \o <<PayloadOf(calls[u]), PayloadOf(calls[t])>>
        /\ (1 \notin calls[2].after /\ 2 \notin calls[1].after) =>
              /\ PersistedLedger \in {calls[1].updated_reports, calls[2].updated_reports}
              /\ calls[1].reports = calls[2].reports =>
                    /\ Len(PersistedLedger) = Len(calls[1].reports) + 1
                    /\ \E t \in Threads : \A i \in DOMAIN PersistedLedger :
                           PersistedLedger[i] # PayloadOf(calls[t])

\* C18 witness: both calls returned successfully, each had loaded the ledger
\* of one entry before the other wrote, and the persisted ledger holds that
\* entry and the record of thread 2 only.
C18_Witness ==
    /\ calls[1].pc = "returned"
    /\ calls[2].pc = "returned"
    /\ calls[1].after = {}
    /\ calls[2].after = {}
    /\ Len(calls[1].reports) = 1
    /\ calls[2].reports = calls[1].reports
    /\ PersistedLedger = Append(calls[1].reports, PayloadOf(calls[2]))
    /\ \A i \in DOMAIN PersistedLedger : PersistedLedger[i] # PayloadOf(calls[1])

====
